---- MODULE Spec2Model ----
(***************************************************************************)
(* Model of the hecto text editor: Row (row.rs), Document (document.rs)    *)
(* and the Editor session (editor.rs).                                     *)
(*                                                                         *)
(* Text is a sequence of characters drawn from a four-letter alphabet that *)
(* has one member of each grapheme-break class the code can tell apart:    *)
(*   "a"  an ordinary character                                            *)
(*   "m"  a combining mark (Extend): joins the cluster before it           *)
(*   "r"  carriage return (CR)                                             *)
(*   "n"  line feed (LF), the newline character '\n'                       *)
(***************************************************************************)
EXTENDS Integers, Sequences, FiniteSets, TLC

\* ------------------------------------------------------------------ bounds
MaxRows == 3      \* rows a document may grow to
MaxChars == 2     \* characters a document may hold in total
MaxFile == 2      \* length of the file read at start-up
MaxName == 1      \* characters typed into the save-as prompt
MaxTerm == 2      \* largest visible width / height

\* --------------------------------------------------------------- constants
QUIT_TIMES == 3

LF == "n"
CR == "r"
ExtendChars == {"m"}
ControlChars == {CR, LF}
TextChars == {"a", "m", CR}
AllChars == TextChars \cup {LF}
\* Characters a key press can deliver as Key::Char besides the newline: the
\* terminal layer turns a typed CR into Char('\n').
TypedChars == {"a", "m"}
\* Characters typed into the save-as prompt.
PromptChars == {"a"}

Min(a, b) == IF a < b THEN a ELSE b
saturating_sub(a, b) == IF a > b THEN a - b ELSE 0

\* All sequences over S of length at most n.
SeqsUpTo(S, n) == UNION {[1..k -> S] : k \in 0..n}

\* ------------------------------------------------- grapheme segmentation
\* graphemes(true): a cluster boundary lies before character i unless the
\* pair (s[i-1], s[i]) is CR LF, or s[i] is Extend and s[i-1] is no control.
IsBoundary(s, i) ==
    \/ i = 1
    \/ ~ \/ (s[i-1] = CR /\ s[i] = LF)
         \/ (s[i] \in ExtendChars /\ s[i-1] \notin ControlChars)

ClusterStarts(s) == {i \in 1..Len(s) : IsBoundary(s, i)}

\* .graphemes(true).count()
GraphemeCount(s) == Cardinality(ClusterStarts(s))

\* Index of the first character of cluster number k (0-based); Len(s)+1 when
\* there is no such cluster.
ClusterIndex(s, k) ==
    IF k >= GraphemeCount(s) THEN Len(s) + 1
    ELSE CHOOSE i \in ClusterStarts(s) :
            Cardinality({j \in ClusterStarts(s) : j < i}) = k

\* .graphemes(true).take(at).collect()
take(s, at) == SubSeq(s, 1, ClusterIndex(s, at) - 1)
\* .graphemes(true).skip(at).collect()
skip(s, at) == SubSeq(s, ClusterIndex(s, at), Len(s))

\* ------------------------------------------------------------------- Row
\* Row { string, len }
update_len(s) == [string |-> s, len |-> GraphemeCount(s)]

RowFrom(s) == update_len(s)

RowDefault == [string |-> <<>>, len |-> 0]

RowInsert(row, at, c) ==
    IF at >= row.len
    THEN update_len(Append(row.string, c))
    ELSE update_len(take(row.string, at) \o <<c>> \o skip(row.string, at))

\* Mutant of RowDelete: everything from the cluster on is removed.
RowDelete_ToEnd(row, at) ==
    IF at >= row.len
    THEN row
    ELSE update_len(take(row.string, at))

RowDelete(row, at) ==
    IF at >= row.len
    THEN row
    ELSE update_len(take(row.string, at) \o skip(row.string, at + 1))

\* Mutant of RowAppend: the other row's text is put in front.
RowAppend_InFront(row, new) == update_len(new.string \o row.string)

RowAppend(row, new) == update_len(row.string \o new.string)

\* Mutant of RowSplit: self is not truncated.
RowSplit_NotTruncated(row, at) ==
    [self |-> row,
     ret  |-> RowFrom(skip(row.string, at))]

\* split mutates self and returns the remainder
RowSplit(row, at) ==
    [self |-> update_len(take(row.string, at)),
     ret  |-> RowFrom(skip(row.string, at))]

\* -------------------------------------------------------------- Document
\* Document { rows, filename, is_dirty }; filename is an Option: {} is None
\* and {name} is Some(name).
DocumentDefault == [rows |-> <<>>, filename |-> {}, is_dirty |-> FALSE]

\* Vec::insert(index, e) and Vec::remove(index), 0-based.
VecInsert(v, index, e) ==
    SubSeq(v, 1, index) \o <<e>> \o SubSeq(v, index + 1, Len(v))
VecRemove(v, index) ==
    SubSeq(v, 1, index) \o SubSeq(v, index + 2, Len(v))

\* str::lines(): pieces end at each LF; the LF, and a CR right before it, are
\* dropped; a last piece without LF is kept as it is.
StripLineEnd(line) ==
    IF Len(line) > 0 /\ line[Len(line)] = CR
    THEN SubSeq(line, 1, Len(line) - 1)
    ELSE line

RECURSIVE lines(_)
lines(content) ==
    IF content = <<>> THEN <<>>
    ELSE LET nl == {i \in 1..Len(content) : content[i] = LF}
         IN  IF nl = {} THEN <<content>>
             ELSE LET i == CHOOSE j \in nl : \A k \in nl : j <= k
                  IN  <<StripLineEnd(SubSeq(content, 1, i - 1))>>
                        \o lines(SubSeq(content, i + 1, Len(content)))

DocOpen(content, name) ==
    [rows     |-> [i \in 1..Len(lines(content)) |-> RowFrom(lines(content)[i])],
     filename |-> {name},
     is_dirty |-> FALSE]

\* Document::row(index).map(Row::len), or 0 when there is no such row.
RowLenAt(doc, index) ==
    IF index < Len(doc.rows) THEN doc.rows[index + 1].len ELSE 0

\* Mutant of insert_newline: the new row is inserted at at.y, before the
\* truncated row.
insert_newline_Before(doc, at) ==
    IF at.y = Len(doc.rows)
    THEN [doc EXCEPT !.rows = Append(doc.rows, RowDefault)]
    ELSE LET sp == RowSplit(doc.rows[at.y + 1], at.x)
         IN  [doc EXCEPT !.rows =
                 VecInsert([doc.rows EXCEPT ![at.y + 1] = sp.self],
                           at.y, sp.ret)]

insert_newline(doc, at) ==
    IF at.y = Len(doc.rows)
    THEN [doc EXCEPT !.rows = Append(doc.rows, RowDefault)]
    ELSE LET sp == RowSplit(doc.rows[at.y + 1], at.x)
         IN  [doc EXCEPT !.rows =
                 VecInsert([doc.rows EXCEPT ![at.y + 1] = sp.self],
                           at.y + 1, sp.ret)]

\* Mutant of DocInsert: a newline is inserted into the row like any character.
DocInsert_NewlineLiteral(doc, at, c) ==
    IF at.y > Len(doc.rows) THEN doc
    ELSE LET d == [doc EXCEPT !.is_dirty = TRUE]
         IN  IF at.y = Len(d.rows)
             THEN [d EXCEPT !.rows = Append(d.rows, RowInsert(RowDefault, 0, c))]
             ELSE [d EXCEPT !.rows[at.y + 1] = RowInsert(d.rows[at.y + 1], at.x, c)]

\* Mutant of DocInsert: the dirty flag is set after the newline branch has
\* returned.
DocInsert_NewlineClean(doc, at, c) ==
    IF at.y > Len(doc.rows) THEN doc
    ELSE IF c = LF THEN insert_newline(doc, at)
    ELSE LET d == [doc EXCEPT !.is_dirty = TRUE]
         IN  IF at.y = Len(d.rows)
             THEN [d EXCEPT !.rows = Append(d.rows, RowInsert(RowDefault, 0, c))]
             ELSE [d EXCEPT !.rows[at.y + 1] = RowInsert(d.rows[at.y + 1], at.x, c)]

DocInsert(doc, at, c) ==
    IF at.y > Len(doc.rows) THEN doc
    ELSE LET d == [doc EXCEPT !.is_dirty = TRUE]
         IN  IF c = LF THEN insert_newline(d, at)
             ELSE IF at.y = Len(d.rows)
             THEN [d EXCEPT !.rows = Append(d.rows, RowInsert(RowDefault, 0, c))]
             ELSE [d EXCEPT !.rows[at.y + 1] = RowInsert(d.rows[at.y + 1], at.x, c)]

is_not_last_row(doc, at) == at.y < Len(doc.rows) - 1

DocDelete(doc, at) ==
    IF at.y >= Len(doc.rows) THEN doc
    ELSE LET d == [doc EXCEPT !.is_dirty = TRUE]
         IN  IF at.x = d.rows[at.y + 1].len /\ is_not_last_row(d, at)
             THEN LET next_row == d.rows[at.y + 2]
                      removed  == VecRemove(d.rows, at.y + 1)
                  IN  [d EXCEPT !.rows =
                          [removed EXCEPT ![at.y + 1] =
                              RowAppend(removed[at.y + 1], next_row)]]
             ELSE [d EXCEPT !.rows[at.y + 1] = RowDelete(d.rows[at.y + 1], at.x)]

\* The bytes save() writes: every row's text followed by one LF.
RECURSIVE SaveBytes(_)
SaveBytes(rows) ==
    IF rows = <<>> THEN <<>>
    ELSE Head(rows).string \o <<LF>> \o SaveBytes(Tail(rows))

\* Document::save. created: File::create succeeded; written: the number of
\* bytes that reached the file before a write failed (all of them when none
\* failed). file is what the file at the document's path holds afterwards,
\* as a set: {} when the call left the file alone.
DocSave(doc, created, written) ==
    IF doc.filename = {}
    THEN [document |-> doc, file |-> {}, ok |-> TRUE]
    ELSE IF ~created
    THEN [document |-> doc, file |-> {}, ok |-> FALSE]
    ELSE IF written < Len(SaveBytes(doc.rows))
    THEN [document |-> doc,
          file |-> {SubSeq(SaveBytes(doc.rows), 1, written)},
          ok |-> FALSE]
    ELSE [document |-> [doc EXCEPT !.is_dirty = FALSE],
          file |-> {SaveBytes(doc.rows)},
          ok |-> TRUE]

is_dirty(doc) == doc.is_dirty

\* Total number of characters held by the rows (used only to bound the model).
RECURSIVE TotalChars(_)
TotalChars(rows) ==
    IF rows = <<>> THEN 0 ELSE Len(Head(rows).string) + TotalChars(Tail(rows))

\* ---------------------------------------------------------------- Editor
VARIABLES
    should_quit,      \* Editor.should_quit
    terminal,         \* Editor.terminal: its size, [width, height]
    document,         \* Editor.document
    offset,           \* Editor.offset
    cursor_position,  \* Editor.cursor_position
    status_message,   \* Editor.status_message (its text)
    quit_times,       \* Editor.quit_times
    pc,               \* where the session is: "loop", "prompt", "exited", "died"
    result,           \* the text collected by prompt()
    modified,         \* history: a row or the row count changed since the
                      \* last load, creation or successful save
    quit_run,         \* history: number of quit keys pressed in a row
    io_error,         \* history: the last step met a terminal I/O error
    last,             \* history: the last operation, its arguments and output
    prev              \* history: document, cursor and offset before it

vars == <<should_quit, terminal, document, offset, cursor_position,
          status_message, quit_times, pc, result, modified, quit_run,
          io_error, last, prev>>

Position(x, y) == [x |-> x, y |-> y]
PositionDefault == Position(0, 0)

\* StatusMessage::from(text); the texts the editor produces are
\*   "help"   HELP: Ctrl-S = save | Ctrl-Q = quit
\*   "err"    ERR: Could not open file: ...
\*   "warn"   WARN: File has unsaved changes! Press Ctrl-Q {n} more times to quit.
\*   "prompt" Save as: {text}
\*   "abort"  Save aborted.
\*   "saved"  File saved sucessfully.
\*   "error"  Error writing file!
\*   ""       the empty text left by clear()
StatusMessage(kind, n, text) == [kind |-> kind, n |-> n, text |-> text]
Message(kind) == StatusMessage(kind, 0, <<>>)
MessageClear == Message("")

\* The name given on the command line.
ArgName == <<"a">>

\* The contents the file named on the command line may have.
Files == SeqsUpTo({"a", CR, LF}, MaxFile)

Snapshot == [document |-> document,
             cursor_position |-> cursor_position,
             offset |-> offset]

\* A history entry: operation, character argument, position argument, whether
\* it reported success, and the file content it wrote ({} if it wrote none).
Op(name, c, at, ok, file) ==
    [op |-> name, c |-> c, at |-> at, ok |-> ok, file |-> file]

\* Editor::default
EditorDefault(doc, status, size) ==
    /\ should_quit = FALSE
    /\ terminal = size
    /\ document = doc
    /\ offset = PositionDefault
    /\ cursor_position = PositionDefault
    /\ status_message = Message(status)
    /\ quit_times = QUIT_TIMES
    /\ pc = "loop"
    /\ result = <<>>
    /\ modified = FALSE
    /\ quit_run = 0
    /\ io_error = FALSE
    /\ last = Op("start", "", PositionDefault, TRUE, {})
    /\ prev = [document |-> doc,
               cursor_position |-> PositionDefault,
               offset |-> PositionDefault]

\* The ways of starting: no argument, a readable file, an unreadable file.
Init ==
    \E w \in 1..MaxTerm, h \in 1..MaxTerm :
        \/ EditorDefault(DocumentDefault, "help", [width |-> w, height |-> h])
        \/ \E content \in Files :
              EditorDefault(DocOpen(content, ArgName), "help",
                            [width |-> w, height |-> h])
        \/ EditorDefault(DocumentDefault, "err", [width |-> w, height |-> h])

\* Mutant of ScrollAxis: the "+ 1" that keeps the cursor on the last visible
\* line is forgotten.
ScrollAxis_NoPlusOne(v, o, size) ==
    IF v < o THEN v
    ELSE IF v >= o + size THEN saturating_sub(v, size)
    ELSE o

\* Mutant of ScrollAxis: a cursor below the window is put on its first line.
ScrollAxis_CursorOnTop(v, o, size) ==
    IF v < o THEN v
    ELSE IF v >= o + size THEN v
    ELSE o

\* Editor::scroll, one axis: the new offset for cursor coordinate v, old
\* offset o and visible extent size.
ScrollAxis(v, o, size) ==
    IF v < o THEN v
    ELSE IF v >= o + size THEN saturating_sub(v, size) + 1
    ELSE o

scroll(off, cur, term) ==
    Position(ScrollAxis(cur.x, off.x, term.width),
             ScrollAxis(cur.y, off.y, term.height))

MoveKeys == {"Up", "Down", "Left", "Right", "PageUp", "PageDown", "End", "Home"}

\* The match of move_cursor, before x is clamped to the target row.
MoveRule(cur, doc, term, key) ==
    LET x == cur.x
        y == cur.y
        term_height == term.height
        doc_height == Len(doc.rows)
        row_width == RowLenAt(doc, y)
    IN  CASE key = "Up" -> Position(x, saturating_sub(y, 1))
          [] key = "Down" -> IF y < doc_height THEN Position(x, y + 1) ELSE cur
          [] key = "Left" ->
                IF x > 0 THEN Position(x - 1, y)
                ELSE IF y > 0 THEN Position(RowLenAt(doc, y - 1), y - 1)
                ELSE cur
          [] key = "Right" ->
                IF x < row_width THEN Position(x + 1, y)
                ELSE IF y < doc_height THEN Position(0, y + 1)
                ELSE cur
          [] key = "PageUp" ->
                Position(x, IF y > term_height THEN saturating_sub(y, term_height) ELSE 0)
          [] key = "PageDown" ->
                Position(x, IF y + term_height < doc_height
                            THEN y + term_height ELSE doc_height)
          [] key = "Home" -> Position(0, y)
          [] key = "End" -> Position(row_width, y)
          [] OTHER -> cur

\* Mutant of ClampX: no clamp.
ClampX_None(pos, doc) == pos

\* The clamp that ends move_cursor.
ClampX(pos, doc) ==
    IF pos.x > RowLenAt(doc, pos.y) THEN Position(RowLenAt(doc, pos.y), pos.y) ELSE pos

\* Mutant of move_cursor: Right at the end of a row stays there.
move_cursor_RightStays(cur, doc, term, key) ==
    IF key = "Right" /\ cur.x >= RowLenAt(doc, cur.y)
    THEN cur
    ELSE ClampX(MoveRule(cur, doc, term, key), doc)

\* Mutant of move_cursor: PageDown stops on the last row instead of one past it.
move_cursor_PageDownToLastRow(cur, doc, term, key) ==
    IF key = "PageDown" /\ cur.y + term.height >= Len(doc.rows)
    THEN ClampX(Position(cur.x, saturating_sub(Len(doc.rows), 1)), doc)
    ELSE ClampX(MoveRule(cur, doc, term, key), doc)

move_cursor(cur, doc, term, key) == ClampX(MoveRule(cur, doc, term, key), doc)

\* The document stays within the model's bounds.
InBounds(doc) ==
    /\ Len(doc.rows) <= MaxRows
    /\ TotalChars(doc.rows) <= MaxChars

\* History: the rows differ from those of the last load, creation or save.
Touched(doc) == modified \/ doc.rows # document.rows

\* History after Document::save returned sv: a save that wrote the whole file
\* makes the rows those of the last save.
AfterSave(sv) ==
    IF sv.ok /\ sv.file # {} THEN FALSE ELSE Touched(sv.document)

\* Mutant of QuitBlocked: one press fewer is held back.
QuitBlocked_OneFewer(times, doc) == times > 1 /\ is_dirty(doc)

\* Ctrl-Q is held back: the guard of the warning branch.
QuitBlocked(times, doc) == times > 0 /\ is_dirty(doc)

\* Mutant of ResetQuitTimes: the counter is never reset.
ResetQuitTimes_Never(times) == times

\* "The user aborted the quit sequence": the counter after a key was handled.
ResetQuitTimes(times) == IF times < QUIT_TIMES THEN QUIT_TIMES ELSE times

\* The end of process_keypress, reached by every key that does not return
\* early: scroll(), then the reset of the quit counter and of the message.
Finish(doc, cur, msg, quit) ==
    /\ document' = doc
    /\ cursor_position' = cur
    /\ should_quit' = quit
    /\ offset' = scroll(offset, cur, terminal)
    /\ quit_times' = ResetQuitTimes(quit_times)
    /\ status_message' = IF quit_times < QUIT_TIMES THEN MessageClear ELSE msg
    /\ pc' = "loop"
    /\ result' = <<>>
    /\ modified' = Touched(doc)

\* run() is at the top of its loop, the screen was refreshed and a key read.
AwaitsKey == pc = "loop" /\ ~should_quit

\* Mutant of KeyQuit: the warning shows the counter after the decrement.
KeyQuit_WarnsAfterDecrement ==
    /\ AwaitsKey
    /\ IF QuitBlocked(quit_times, document)
       THEN /\ status_message' = StatusMessage("warn", quit_times - 1, <<>>)
            /\ quit_times' = quit_times - 1
            /\ UNCHANGED <<should_quit, document, offset, cursor_position, pc,
                           result, modified>>
       ELSE Finish(document, cursor_position, status_message, TRUE)
    /\ quit_run' = quit_run + 1
    /\ io_error' = FALSE
    /\ UNCHANGED terminal

\* Key::Ctrl('q')
KeyQuit ==
    /\ AwaitsKey
    /\ IF QuitBlocked(quit_times, document)
       THEN /\ status_message' = StatusMessage("warn", quit_times, <<>>)
            /\ quit_times' = quit_times - 1
            /\ UNCHANGED <<should_quit, document, offset, cursor_position, pc,
                           result, modified>>
       ELSE Finish(document, cursor_position, status_message, TRUE)
    /\ quit_run' = quit_run + 1
    /\ io_error' = FALSE
    /\ UNCHANGED terminal

\* Mutant of SaveNamed: Document::save runs before the name is stored.
SaveNamed_NameAfterSave(name, created, written) ==
    LET sv == DocSave(document, created, written)
    IN  /\ document' = [sv.document EXCEPT !.filename = name]
        /\ offset' = scroll(offset, cursor_position, terminal)
        /\ quit_times' = ResetQuitTimes(quit_times)
        /\ status_message' = IF quit_times < QUIT_TIMES THEN MessageClear
                             ELSE Message(IF sv.ok THEN "saved" ELSE "error")
        /\ pc' = "loop"
        /\ result' = <<>>
        /\ modified' = AfterSave(sv)
        /\ quit_run' = 0
        /\ io_error' = FALSE
        /\ UNCHANGED <<should_quit, terminal, cursor_position>>

\* Editor::save once the file name is known: Document::save and its message.
\* name is the Option returned by the prompt, or the name the document has.
SaveNamed(name, created, written) ==
    LET sv == DocSave([document EXCEPT !.filename = name], created, written)
    IN  /\ document' = sv.document
        /\ offset' = scroll(offset, cursor_position, terminal)
        /\ quit_times' = ResetQuitTimes(quit_times)
        /\ status_message' = IF quit_times < QUIT_TIMES THEN MessageClear
                             ELSE Message(IF sv.ok THEN "saved" ELSE "error")
        /\ pc' = "loop"
        /\ result' = <<>>
        /\ modified' = AfterSave(sv)
        /\ quit_run' = 0
        /\ io_error' = FALSE
        /\ UNCHANGED <<should_quit, terminal, cursor_position>>

\* Editor::save when the prompt gave no name: "Save aborted."
SaveAborted(failed) ==
    /\ Finish(document, cursor_position, Message("abort"), should_quit)
    /\ quit_run' = 0
    /\ io_error' = failed
    /\ UNCHANGED terminal

\* The outcomes of the file system calls of Document::save.
SaveOutcomes(doc) ==
    {o \in [created : BOOLEAN, written : 0..Len(SaveBytes(doc.rows))] :
        ~o.created => o.written = 0}

\* Key::Ctrl('s') on a document that has a file name.
KeySave(o) ==
    /\ AwaitsKey
    /\ document.filename # {}
    /\ SaveNamed(document.filename, o.created, o.written)

\* Key::Ctrl('s') on a document without one: prompt() starts.
KeySavePrompt ==
    /\ AwaitsKey
    /\ document.filename = {}
    /\ pc' = "prompt"
    /\ result' = <<>>
    /\ status_message' = StatusMessage("prompt", 0, <<>>)
    /\ quit_run' = 0
    /\ io_error' = FALSE
    /\ UNCHANGED <<should_quit, terminal, document, offset, cursor_position,
                   quit_times, modified>>

\* One round of the prompt loop that does not leave it: Backspace, a character
\* that is no control, or a key the prompt ignores.
PromptEdit(key, c) ==
    /\ pc = "prompt"
    /\ \/ key = "Backspace" /\ c = ""
          /\ result' = IF result # <<>> THEN SubSeq(result, 1, Len(result) - 1)
                       ELSE result
       \/ key = "Char" /\ c \in PromptChars /\ Len(result) < MaxName
          /\ result' = Append(result, c)
       \/ key = "Other" /\ c = ""
          /\ result' = result
    /\ status_message' = StatusMessage("prompt", 0, result')
    /\ io_error' = FALSE
    /\ UNCHANGED <<should_quit, terminal, document, offset, cursor_position,
                   quit_times, pc, modified, quit_run>>

\* Enter ends the prompt with the text typed so far.
PromptEnter(o) ==
    /\ pc = "prompt"
    /\ IF result = <<>>
       THEN o = [created |-> FALSE, written |-> 0] /\ SaveAborted(FALSE)
       ELSE SaveNamed({result}, o.created, o.written)

\* Esc clears the text and ends the prompt.
PromptEsc ==
    /\ pc = "prompt"
    /\ SaveAborted(FALSE)

\* refresh_screen or read_key fails inside the prompt: prompt returns Err,
\* which save() turns into None with unwrap_or(None).
PromptIoError ==
    /\ pc = "prompt"
    /\ SaveAborted(TRUE)

\* Key::Char(c)
KeyChar(c) ==
    /\ AwaitsKey
    /\ InBounds(DocInsert(document, cursor_position, c))
    /\ LET doc == DocInsert(document, cursor_position, c)
       IN  Finish(doc, move_cursor(cursor_position, doc, terminal, "Right"),
                  status_message, should_quit)
    /\ quit_run' = 0
    /\ io_error' = FALSE
    /\ UNCHANGED terminal

\* Key::Delete
KeyDelete ==
    /\ AwaitsKey
    /\ Finish(DocDelete(document, cursor_position), cursor_position,
              status_message, should_quit)
    /\ quit_run' = 0
    /\ io_error' = FALSE
    /\ UNCHANGED terminal

\* Key::Backspace
KeyBackspace ==
    /\ AwaitsKey
    /\ IF cursor_position.x > 0 \/ cursor_position.y > 0
       THEN LET cur == move_cursor(cursor_position, document, terminal, "Left")
            IN  Finish(DocDelete(document, cur), cur, status_message, should_quit)
       ELSE Finish(document, cursor_position, status_message, should_quit)
    /\ quit_run' = 0
    /\ io_error' = FALSE
    /\ UNCHANGED terminal

\* Key::Up | Down | Left | Right | PageUp | PageDown | End | Home
KeyMove(key) ==
    /\ AwaitsKey
    /\ Finish(document, move_cursor(cursor_position, document, terminal, key),
              status_message, should_quit)
    /\ quit_run' = 0
    /\ io_error' = FALSE
    /\ UNCHANGED terminal

\* Any other key: the `_ => ()` arm.
KeyOther ==
    /\ AwaitsKey
    /\ Finish(document, cursor_position, status_message, should_quit)
    /\ quit_run' = 0
    /\ io_error' = FALSE
    /\ UNCHANGED terminal

\* die(): the panic that ends the session.
Die ==
    /\ pc' = "died"
    /\ io_error' = TRUE
    /\ UNCHANGED <<should_quit, terminal, document, offset, cursor_position,
                   status_message, quit_times, result, modified, quit_run>>

\* run(): refresh_screen fails at the top of the loop.
RefreshFails ==
    /\ pc = "loop"
    /\ Die

\* run(): read_key fails at the start of process_keypress.
ReadKeyFails ==
    /\ AwaitsKey
    /\ Die

\* run(): should_quit is set, the loop breaks after the last refresh.
Exit ==
    /\ pc = "loop"
    /\ should_quit
    /\ pc' = "exited"
    /\ io_error' = FALSE
    /\ UNCHANGED <<should_quit, terminal, document, offset, cursor_position,
                   status_message, quit_times, result, modified, quit_run>>

\* --------------------------------------------------------- specifications
NoHistory == UNCHANGED <<last, prev>>

\* The session: every key, every outcome of the file system and of the
\* terminal. The per-step history is not kept.
Next ==
    \/ KeyQuit /\ NoHistory
    \/ \E o \in SaveOutcomes(document) : KeySave(o) /\ NoHistory
    \/ KeySavePrompt /\ NoHistory
    \/ \E key \in {"Backspace", "Char", "Other"}, c \in PromptChars \cup {""} :
          PromptEdit(key, c) /\ NoHistory
    \/ \E o \in SaveOutcomes(document) : PromptEnter(o) /\ NoHistory
    \/ PromptEsc /\ NoHistory
    \/ PromptIoError /\ NoHistory
    \/ \E c \in TypedChars \cup {LF} : KeyChar(c) /\ NoHistory
    \/ KeyDelete /\ NoHistory
    \/ KeyBackspace /\ NoHistory
    \/ \E key \in MoveKeys : KeyMove(key) /\ NoHistory
    \/ KeyOther /\ NoHistory
    \/ RefreshFails /\ NoHistory
    \/ ReadKeyFails /\ NoHistory
    \/ Exit /\ NoHistory

Spec == Init /\ [][Next]_vars

\* The step is recorded: the operation, and the state it was applied to.
Record(name, c) ==
    /\ last' = Op(name, c, cursor_position, TRUE, {})
    /\ prev' = Snapshot

\* The session under the keys that edit and move, every step recorded.
EditNext ==
    \/ \E c \in TypedChars \cup {LF} : KeyChar(c) /\ Record("Char", c)
    \/ KeyDelete /\ Record("Delete", "")
    \/ KeyBackspace /\ Record("Backspace", "")
    \/ \E key \in MoveKeys : KeyMove(key) /\ Record(key, "")
    \/ KeyOther /\ Record("Other", "")

EditSpec == Init /\ [][EditNext]_vars

\* The positions Document's operations are called with: every position of the
\* largest document, and positions past its rows and past its row ends.
Positions == [x : 0..MaxChars + 1, y : 0..MaxRows + 1]

EditorUnchanged ==
    UNCHANGED <<should_quit, terminal, offset, cursor_position, status_message,
                quit_times, pc, result, quit_run, io_error>>

\* Document::insert(at, c), called by any user of Document.
ApiInsert(at, c) ==
    /\ InBounds(DocInsert(document, at, c))
    /\ document' = DocInsert(document, at, c)
    /\ modified' = Touched(DocInsert(document, at, c))
    /\ last' = Op("insert", c, at, TRUE, {})
    /\ prev' = Snapshot
    /\ EditorUnchanged

\* Document::delete(at)
ApiDelete(at) ==
    /\ document' = DocDelete(document, at)
    /\ modified' = Touched(DocDelete(document, at))
    /\ last' = Op("delete", "", at, TRUE, {})
    /\ prev' = Snapshot
    /\ EditorUnchanged

\* Document::save()
ApiSave(o) ==
    LET sv == DocSave(document, o.created, o.written)
    IN  /\ document' = sv.document
        /\ modified' = AfterSave(sv)
        /\ last' = Op("save", "", PositionDefault, sv.ok, sv.file)
        /\ prev' = Snapshot
        /\ EditorUnchanged

\* A Document under any sequence of calls of its operations.
DocNext ==
    \/ \E at \in Positions, c \in AllChars : ApiInsert(at, c)
    \/ \E at \in Positions : ApiDelete(at)
    \/ \E o \in SaveOutcomes(document) : ApiSave(o)

\* The editor around the document plays no part: one terminal size is enough.
DocInit == Init /\ terminal = [width |-> 1, height |-> 1]

DocSpec == DocInit /\ [][DocNext]_vars

\* A step of the save key is recorded: the text typed into the prompt (<<>>
\* when there was no prompt) and what Document::save returned.
RecordSave(name, text, sv) ==
    last' = Op(name, text, cursor_position, sv.ok, sv.file)

\* What a step that does not call Document::save records as its outcome.
NotSaved == [ok |-> TRUE, file |-> {}]

\* The session under the keys that save, quit and type, every step recorded.
\* prev is the state the key was pressed in; the rounds of the save-as prompt
\* leave it alone.
SaveNext ==
    \/ \E c \in TypedChars \cup {LF} :
          KeyChar(c) /\ RecordSave("Char", <<c>>, NotSaved) /\ prev' = Snapshot
    \/ KeyOther /\ RecordSave("Other", <<>>, NotSaved) /\ prev' = Snapshot
    \/ KeyQuit /\ RecordSave("Quit", <<>>, NotSaved) /\ prev' = Snapshot
    \/ \E o \in SaveOutcomes(document) :
          /\ KeySave(o)
          /\ RecordSave("save", <<>>, DocSave(document, o.created, o.written))
          /\ prev' = Snapshot
    \/ KeySavePrompt /\ RecordSave("prompt", <<>>, NotSaved) /\ prev' = Snapshot
    \/ \E key \in {"Backspace", "Char", "Other"}, c \in PromptChars \cup {""} :
          PromptEdit(key, c) /\ RecordSave("typing", result', NotSaved)
                             /\ UNCHANGED prev
    \/ \E o \in SaveOutcomes(document) :
          /\ PromptEnter(o)
          /\ IF result = <<>>
             THEN RecordSave("abort", result, NotSaved)
             ELSE RecordSave("saveas", result,
                             DocSave([document EXCEPT !.filename = {result}],
                                     o.created, o.written))
          /\ UNCHANGED prev
    \/ PromptEsc /\ RecordSave("abort", result, NotSaved) /\ UNCHANGED prev
    \/ PromptIoError /\ RecordSave("ioabort", result, NotSaved) /\ UNCHANGED prev

SaveSpec == Init /\ [][SaveNext]_vars

\* The cluster indices Row's operations are called with: every index of the
\* longest row, its end, and one past it.
Indices == 0..MaxChars + 1

\* Row's operations are applied to rows[1] of a bench of rows; split puts the
\* row it returns at rows[2], append joins rows[2] onto rows[1].
RowStep(name, c, at, rows) ==
    /\ InBounds([document EXCEPT !.rows = rows])
    /\ document' = [document EXCEPT !.rows = rows]
    /\ last' = Op(name, c, Position(at, 0), TRUE, {})
    /\ prev' = Snapshot
    /\ UNCHANGED modified
    /\ EditorUnchanged

\* Row::insert(at, c)
RowApiInsert(at, c) ==
    RowStep("insert", c, at,
            [document.rows EXCEPT ![1] = RowInsert(document.rows[1], at, c)])

\* Row::delete(at)
RowApiDelete(at) ==
    RowStep("delete", "", at,
            [document.rows EXCEPT ![1] = RowDelete(document.rows[1], at)])

\* Row::split(at)
RowApiSplit(at) ==
    /\ Len(document.rows) = 1
    /\ RowStep("split", "", at,
               <<RowSplit(document.rows[1], at).self,
                 RowSplit(document.rows[1], at).ret>>)

\* Row::append(&new)
RowApiAppend ==
    /\ Len(document.rows) = 2
    /\ RowStep("append", "", 0, <<RowAppend(document.rows[1], document.rows[2])>>)

RowNext ==
    \/ \E at \in Indices, c \in AllChars : RowApiInsert(at, c)
    \/ \E at \in Indices : RowApiDelete(at)
    \/ \E at \in Indices : RowApiSplit(at)
    \/ RowApiAppend

\* Row::from(s) for every text within the bounds.
RowInit ==
    \E s \in SeqsUpTo(AllChars, MaxChars) :
        EditorDefault([DocumentDefault EXCEPT !.rows = <<RowFrom(s)>>], "help",
                      [width |-> 1, height |-> 1])

\* A Row under any sequence of calls of its operations.
RowSpec == RowInit /\ [][RowNext]_vars

\* ----------------------------------------------------------------- claims
\* A key is awaited: by process_keypress, or by the save-as prompt.
KeyAwaited == AwaitsKey \/ pc = "prompt"

\* C1 (as claimed): from the counter at 3 on a dirty document, the 1st and 2nd
\* quit press in a row leave the session open with the counter at 2 and 1,
\* and the 3rd sets should_quit.
C1_ThirdPressQuits ==
    is_dirty(document) =>
        /\ quit_run = 1 => (~should_quit /\ quit_times = 2)
        /\ quit_run = 2 => (~should_quit /\ quit_times = 1)
        /\ quit_run = 3 => should_quit

C3_BelowOnlyAfterQuit ==
    (KeyAwaited /\ quit_times < QUIT_TIMES) =>
        (quit_run > 0 /\ is_dirty(document))

\* C3 (amended): outside the save-as prompt, the counter is at its threshold
\* after every key other than the quit key, so process_keypress awaits a key
\* with the counter below the threshold only right after a quit press held
\* back on a dirty document.
C3_ResetByOtherKeys ==
    pc # "prompt" =>
        /\ quit_run = 0 => quit_times = QUIT_TIMES
        /\ (AwaitsKey /\ quit_times < QUIT_TIMES) =>
              (quit_run > 0 /\ is_dirty(document))

\* The message is empty only after the reset that follows a held-back quit.
C3_Witness ==
    /\ AwaitsKey
    /\ quit_run = 0
    /\ quit_times = QUIT_TIMES
    /\ is_dirty(document)
    /\ status_message = MessageClear

\* C4: the cursor is inside the document: y is at most the row count, and x at
\* most the length of row y (0 where there is no row).
C4_CursorInDocument ==
    /\ cursor_position.y <= Len(document.rows)
    /\ cursor_position.x <= RowLenAt(document, cursor_position.y)

\* The cursor sits at the end of the last row of a document that was edited
\* and has a shorter row above.
C4_Witness ==
    /\ modified
    /\ Len(document.rows) >= 2
    /\ cursor_position.y = Len(document.rows) - 1
    /\ cursor_position.x = RowLenAt(document, cursor_position.y)
    /\ cursor_position.x > RowLenAt(document, cursor_position.y - 1)

\* C5: the cursor is inside the visible window.
C5_CursorInWindow ==
    /\ offset.y <= cursor_position.y
    /\ cursor_position.y <= offset.y + terminal.height - 1
    /\ offset.x <= cursor_position.x
    /\ cursor_position.x <= offset.x + terminal.width - 1

\* The window has scrolled both ways and a quit press was just held back.
C5_Witness ==
    /\ offset.x > 0
    /\ offset.y > 0
    /\ quit_run > 0
    /\ ~should_quit

\* C10 (as claimed): a terminal I/O failure ends the session.
C10_IoFailureIsFatal == io_error => pc = "died"

\* The rows before the recorded step.
OldRows == prev.document.rows

\* Every row's cached length is the number of clusters of its text.
LensCached(rows) ==
    \A i \in 1..Len(rows) : rows[i].len = GraphemeCount(rows[i].string)

\* C6: whenever the document is not dirty, its rows are those of the last
\* load, creation or successful save: no operation has changed a row or the
\* row count since then without leaving the document dirty.
C6_CleanMeansUnchanged == ~is_dirty(document) => ~modified

\* A failed save has left a changed document dirty.
C6_Witness ==
    /\ last.op = "save"
    /\ ~last.ok
    /\ modified
    /\ is_dirty(document)

\* C7: the Delete key with the cursor at the end of a row that is not the last
\* merges the row with the next: one row fewer, row y is the old rows y and
\* y+1 joined, the other rows keep content and order, the cursor stays.
C7_DeleteMergesRows ==
    LET at == prev.cursor_position
        y == at.y + 1
    IN  (/\ last.op = "Delete"
         /\ at.y + 1 < Len(OldRows)
         /\ at.x = OldRows[y].len)
        => /\ Len(document.rows) = Len(OldRows) - 1
           /\ document.rows[y].string = OldRows[y].string \o OldRows[y + 1].string
           /\ \A i \in 1..(y - 1) : document.rows[i] = OldRows[i]
           /\ \A i \in (y + 1)..Len(document.rows) : document.rows[i] = OldRows[i + 1]
           /\ LensCached(document.rows)
           /\ cursor_position = at

\* Two rows that both hold text were merged, with a row after them.
C7_Witness ==
    /\ last.op = "Delete"
    /\ prev.cursor_position.y + 2 < Len(OldRows)
    /\ prev.cursor_position.x = OldRows[prev.cursor_position.y + 1].len
    /\ prev.cursor_position.x > 0
    /\ OldRows[prev.cursor_position.y + 2].len > 0

\* C8: Document::insert of a newline at a row that exists adds exactly one
\* row: row y keeps its first x clusters, the rest makes the new row y+1, the
\* other rows keep content and order; at y = row count it appends one empty row.
C8_NewlineSplitsRow ==
    LET at == last.at
        y == at.y + 1
    IN  (last.op = "insert" /\ last.c = LF) =>
          /\ at.y < Len(OldRows) =>
                /\ Len(document.rows) = Len(OldRows) + 1
                /\ document.rows[y].string \o document.rows[y + 1].string
                      = OldRows[y].string
                /\ document.rows[y].len = Min(at.x, OldRows[y].len)
                /\ document.rows[y].len + document.rows[y + 1].len = OldRows[y].len
                /\ \A i \in 1..(y - 1) : document.rows[i] = OldRows[i]
                /\ \A i \in (y + 1)..Len(OldRows) : document.rows[i + 1] = OldRows[i]
                /\ LensCached(document.rows)
          /\ at.y = Len(OldRows) => document.rows = Append(OldRows, RowDefault)
          /\ at.y > Len(OldRows) => document.rows = OldRows

\* A row was split between two of its clusters, with a row after it.
C8_Witness ==
    /\ last.op = "insert"
    /\ last.c = LF
    /\ last.at.y + 1 < Len(OldRows)
    /\ last.at.x > 0
    /\ last.at.x < OldRows[last.at.y + 1].len

\* C9 (as claimed): opening the file a successful save has written gives the
\* rows the document has.
C9_SaveOpenRoundTrip ==
    (last.op = "save" /\ last.ok) =>
        \A content \in last.file :
            DocOpen(content, ArgName).rows = document.rows

\* C11 (as claimed): after the save key has been handled, the status message
\* tells how the save ended: saved, error, or aborted.
C11_SaveOutcomeShown ==
    /\ last.op \in {"save", "saveas"} =>
          status_message = Message(IF last.ok THEN "saved" ELSE "error")
    /\ last.op = "abort" => status_message = Message("abort")

\* C12: a save-as prompt ended by Esc or by Enter on an empty text leaves the
\* document as it was when the save key was pressed, without a file name;
\* ended by Enter on a text, the text is the file name Document::save ran
\* with: the rows are unchanged and a save that succeeded left it clean.
C12_AbortedSaveLeavesDocument ==
    /\ last.op = "abort" =>
          /\ document = prev.document
          /\ document.filename = {}
    /\ last.op = "saveas" =>
          /\ last.c # <<>>
          /\ document.filename = {last.c}
          /\ document.rows = prev.document.rows
          /\ last.ok => (~is_dirty(document) /\ last.file = {SaveBytes(document.rows)})
          /\ ~last.ok => is_dirty(document) = is_dirty(prev.document)

\* Esc after text was typed, on a dirty document.
C12_Witness ==
    /\ last.op = "abort"
    /\ last.c # <<>>
    /\ is_dirty(document)
    /\ document.rows # <<>>

\* C13: Right at the end of row y moves to the start of row y+1, and stays at
\* y = row count; Left at x = 0 moves to the end of row y-1, and stays at
\* {0,0}; otherwise Right and Left change x by one and leave y.
C13_HorizontalWrap ==
    LET at == prev.cursor_position
        H == Len(OldRows)
    IN  /\ last.op = "Right" =>
              cursor_position =
                  IF at.x = RowLenAt(prev.document, at.y)
                  THEN (IF at.y < H THEN Position(0, at.y + 1) ELSE at)
                  ELSE Position(at.x + 1, at.y)
        /\ last.op = "Left" =>
              cursor_position =
                  IF at.x = 0
                  THEN (IF at.y > 0
                        THEN Position(RowLenAt(prev.document, at.y - 1), at.y - 1)
                        ELSE at)
                  ELSE Position(at.x - 1, at.y)

\* Right at the end of a row that holds text wrapped to the next row.
C13_Witness ==
    /\ last.op = "Right"
    /\ prev.cursor_position.x > 0
    /\ cursor_position = Position(0, prev.cursor_position.y + 1)

\* One axis of C16: cursor coordinate v, offsets before and after, extent size.
AxisMinimal(v, before, after, size) ==
    IF before <= v /\ v <= before + size - 1 THEN after = before
    ELSE IF v < before THEN after = v
    ELSE after = v - size + 1

\* C16: after a key event the offset is the old one on each axis where the
\* cursor is inside the old window, the cursor's coordinate where it is above
\* (left of) it, and the coordinate - extent + 1 where it is below (right of).
C16_ScrollIsMinimal ==
    last.op # "start" =>
        /\ AxisMinimal(cursor_position.y, prev.offset.y, offset.y, terminal.height)
        /\ AxisMinimal(cursor_position.x, prev.offset.x, offset.x, terminal.width)

\* A window that had scrolled down scrolls down again.
C16_Witness ==
    /\ last.op # "start"
    /\ prev.offset.y > 0
    /\ offset.y > prev.offset.y

\* Cluster number k (0-based) of s.
Grapheme(s, k) == SubSeq(s, ClusterIndex(s, k), ClusterIndex(s, k + 1) - 1)

\* C17 (as claimed): typing a character that is no newline at {x, y} makes it
\* cluster x of row y (a new one-character row at y = row count), keeps the
\* clusters before x, shifts those from x on by one, leaves the other rows,
\* and moves the cursor to {x+1, y}; typing a newline moves it to {0, y+1}.
C17_TypedCharAtCursor ==
    LET at == prev.cursor_position
        y == at.y + 1
        old == IF at.y = Len(OldRows) THEN <<>> ELSE OldRows[y].string
        new == document.rows[y].string
    IN  /\ (last.op = "Char" /\ last.c # LF) =>
              /\ Len(document.rows) =
                    IF at.y = Len(OldRows) THEN Len(OldRows) + 1 ELSE Len(OldRows)
              /\ take(new, at.x) = take(old, at.x)
              /\ Grapheme(new, at.x) = <<last.c>>
              /\ skip(new, at.x + 1) = skip(old, at.x)
              /\ \A i \in 1..Len(OldRows) : i # y => document.rows[i] = OldRows[i]
              /\ cursor_position = Position(at.x + 1, at.y)
        /\ (last.op = "Char" /\ last.c = LF) =>
              cursor_position = Position(0, at.y + 1)

\* C18: Backspace at {0,0} changes nothing; at x > 0 it removes cluster x-1
\* of row y and leaves the cursor at {x-1, y}; at {0, y}, 0 < y < row count,
\* it joins row y onto row y-1 and leaves the cursor at the old end of row y-1.
C18_BackspaceIsLeftThenDelete ==
    LET at == prev.cursor_position
        y == at.y + 1
    IN  last.op = "Backspace" =>
          /\ (at.x = 0 /\ at.y = 0) =>
                /\ document = prev.document
                /\ cursor_position = at
          /\ at.x > 0 =>
                /\ Len(document.rows) = Len(OldRows)
                /\ document.rows[y].string =
                      take(OldRows[y].string, at.x - 1) \o skip(OldRows[y].string, at.x)
                /\ \A i \in 1..Len(OldRows) : i # y => document.rows[i] = OldRows[i]
                /\ LensCached(document.rows)
                /\ cursor_position = Position(at.x - 1, at.y)
          /\ (at.x = 0 /\ 0 < at.y /\ at.y < Len(OldRows)) =>
                /\ Len(document.rows) = Len(OldRows) - 1
                /\ document.rows[y - 1].string =
                      OldRows[y - 1].string \o OldRows[y].string
                /\ \A i \in 1..(y - 2) : document.rows[i] = OldRows[i]
                /\ \A i \in y..Len(document.rows) : document.rows[i] = OldRows[i + 1]
                /\ LensCached(document.rows)
                /\ cursor_position = Position(OldRows[y - 1].len, at.y - 1)

\* Two rows that both hold text were joined by Backspace.
C18_Witness ==
    /\ last.op = "Backspace"
    /\ prev.cursor_position.x = 0
    /\ prev.cursor_position.y > 0
    /\ prev.cursor_position.y < Len(OldRows)
    /\ OldRows[prev.cursor_position.y].len > 0
    /\ OldRows[prev.cursor_position.y + 1].len > 0

Max(a, b) == IF a > b THEN a ELSE b

\* C19: Up, Down, PageUp and PageDown set y as claimed for row count H and
\* visible height vh, set x to the smaller of the old x and the length of the
\* new row (0 at y = H), and leave the document.
C19_VerticalMotion ==
    LET at == prev.cursor_position
        H == Len(OldRows)
        vh == terminal.height
        newy == CASE last.op = "Up" -> Max(at.y - 1, 0)
                  [] last.op = "Down" -> Min(at.y + 1, H)
                  [] last.op = "PageUp" -> IF at.y > vh THEN at.y - vh ELSE 0
                  [] last.op = "PageDown" -> IF at.y + vh < H THEN at.y + vh ELSE H
                  [] OTHER -> at.y
    IN  last.op \in {"Up", "Down", "PageUp", "PageDown"} =>
          /\ cursor_position =
                Position(Min(at.x, RowLenAt(prev.document, newy)), newy)
          /\ document = prev.document

\* PageDown landed on a row shorter than the old x.
C19_Witness ==
    /\ last.op = "PageDown"
    /\ cursor_position.y < Len(document.rows)
    /\ cursor_position.y > prev.cursor_position.y
    /\ cursor_position.x < prev.cursor_position.x

\* C20: the number in the warning of a held-back quit press is the number of
\* quit presses still needed: the press that ends the session on a dirty
\* document is press QUIT_TIMES + 1 of its run, and a warning shown after
\* quit_run presses names the rest of them.
C20_WarningCountsPressesLeft ==
    /\ status_message.kind = "warn" =>
          /\ ~should_quit
          /\ is_dirty(document)
          /\ quit_run >= 1
          /\ quit_run + status_message.n = QUIT_TIMES + 1
    /\ (should_quit /\ is_dirty(document)) => quit_run = QUIT_TIMES + 1

\* The last warning of a run: one more press ends the session.
C20_Witness ==
    /\ status_message.kind = "warn"
    /\ status_message.n = 1
    /\ quit_times = 0

\* C14: split(at) for at within the row, then append of the returned row,
\* gives back the row's text and cached length; for at past the row's length
\* split leaves the row and returns an empty row.
C14_SplitAppendRoundTrip ==
    LET old == OldRows[1]
    IN  last.op = "split" =>
          /\ last.at.x <= old.len =>
                RowAppend(document.rows[1], document.rows[2]) = old
          /\ last.at.x > old.len =>
                /\ document.rows[1] = old
                /\ document.rows[2] = RowDefault

\* A row was split between two of its clusters.
C14_Witness ==
    /\ last.op = "split"
    /\ last.at.x > 0
    /\ last.at.x < OldRows[1].len
    /\ document.rows[1].len > 0
    /\ document.rows[2].len > 0

\* C15 (as claimed): insert(at, c) for at within the row, then delete(at),
\* gives back the row's text and cached length.
C15_InsertDeleteRoundTrip ==
    (last.op = "insert" /\ last.at.x <= OldRows[1].len) =>
        RowDelete(document.rows[1], last.at.x) = OldRows[1]

\* C21: no row of the document holds a newline character, after open and
\* after every insert and delete.
C21_NoNewlineInRows ==
    \A i \in 1..Len(document.rows) :
        \A j \in 1..Len(document.rows[i].string) :
            document.rows[i].string[j] # LF

\* A newline was inserted right after a carriage return: the row was split
\* and its first part ends with the carriage return.
C21_Witness ==
    /\ last.op = "insert"
    /\ last.c = LF
    /\ Len(document.rows) = Len(OldRows) + 1
    /\ LET row == document.rows[last.at.y + 1].string
       IN  row # <<>> /\ row[Len(row)] = CR

\* C22 (as claimed): a Delete or Backspace key that leaves the rows as they
\* were leaves the dirty flag as it was.
C22_NoChangeKeepsClean ==
    (last.op \in {"Delete", "Backspace"} /\ document.rows = OldRows) =>
        is_dirty(document) = is_dirty(prev.document)

====
